---- MODULE Spec2Model ----
(***************************************************************************)
(* Model of miner.py: AsyncDiskWriteListener, the asynchronous batched     *)
(* writer of tweets.parquet and users.parquet.                             *)
(*                                                                         *)
(* Three execution contexts are interleaved: the stream's delivery thread  *)
(* (on_status), the main thread (construction, start, stop and its bounded *)
(* join) and the writer thread (_process_loop).  A pandas DataFrame is a   *)
(* sequence of rows [key, val] (key: the index column, val: the other      *)
(* columns); a parquet file is columnar: its index column and its data     *)
(* columns, one entry per row.                                             *)
(*                                                                         *)
(* Spec is the listener under any caller: start, stop and on_status come   *)
(* at any time and the disk does not fail.  FaultSpec is Spec on a disk    *)
(* whose writes can fail.  MainSpec is one run of the program: main() with *)
(* the listener inside its with-block, the stream connected to it, the     *)
(* SIGINT handler, the polling loop and a disk whose writes can fail.      *)
(* LiveSpec is MainSpec with fewer deliveries and with threads that are    *)
(* scheduled fairly.  DeliverySpec is the stream handing events to a       *)
(* started listener, each event recorded as it is delivered.               *)
(***************************************************************************)
EXTENDS Naturals, Sequences, FiniteSets

\* Bounds of the model.
MaxSubmit == 3     \* queue puts over all runs
MaxRuns == 2       \* listeners constructed one after the other on the same path
MaxLivePuts == 1   \* queue puts in LiveSpec

TweetIds == {1, 2}
UserIds == {1, 2}
Payloads == {1, 2}
BacklogSizes == {2, 3}
Modes == {"append", "overwrite"}

VARIABLES
    main_pc,            \* main thread: none, constructed, started, joining, stopped
    mode,               \* mode argument of __init__
    backlog_sz,         \* self._backlog_sz
    running,            \* self._running (threading.Event)
    write_q,            \* self._write_q (queue.Queue)
    saved_tweet_data,   \* self._saved_tweet_data
    saved_user_data,    \* self._saved_user_data
    tweet_file,         \* tweets.parquet on disk
    user_file,          \* users.parquet on disk
    writer_pc,          \* writer thread: idle, loop, get, write_tweets, write_users,
                        \*   final_tweets, final_users, done, crashed
    backlog_tweets,     \* local dict backlog_tweets of _process_loop
    backlog_users,      \* local dict backlog_users of _process_loop
    runs,               \* listeners constructed so far
    nput,               \* queue puts so far (all runs)
    \* history variables, read by the properties only
    batch,              \* statuses consumed since the backlog was last cleared
    nflush,             \* completed calls of _write_backlog_to_disk in this run
    submitted,          \* statuses put on the queue in this run
    accepted,           \* tweet ids put on the queue before stop() in this run
    stop_backlog,       \* tweet ids in the backlog, below the threshold, when stop()
                        \*   cleared the flag
    flushed,            \* tweet ids of the batches whose users went into the rows
                        \*   users.parquet holds
    delivered,          \* the event the stream passed to on_status last
    \* the program around the listener
    timeout_warned,     \* 'Timed out while joining write thread.' has been logged
    shutdown_event,     \* _shutdown_event (threading.Event)
    stream              \* tp.Stream of main: none, connected, closing, closed

vars == <<main_pc, mode, backlog_sz, running, write_q, saved_tweet_data,
          saved_user_data, tweet_file, user_file, writer_pc, backlog_tweets,
          backlog_users, runs, nput, batch, nflush, submitted, accepted, stop_backlog,
          flushed, delivered, timeout_warned, shutdown_event, stream>>

\* What the caller of the listener's methods owns.
pvars == <<delivered, shutdown_event, stream>>

----------------------------------------------------------------------------
\* tp.Status objects, reduced to the attributes the listener reads.

\* The attribute is absent (hasattr(...) is False).
NoStatus == [id |-> 0, text |-> 0, uid |-> 0, name |-> 0, location |-> "missing"]

\* user.location of a status: a place, or "missing" when the user object has no
\* such attribute.
Locations == {"somewhere", "missing"}

\* The statuses of the model, without retweeted_status / quoted_status: each tweet
\* id comes with two texts and each user id with two names; the user of a status
\* has a location in two of the four.
Statuses == {s \in [id : TweetIds, text : Payloads, uid : UserIds, name : Payloads,
                    location : Locations] :
                /\ s.uid = s.text
                /\ s.name = s.id
                /\ (s.location = "missing") <=> (s.id # s.uid)}

\* The target of a wrapper status: a status with another tweet id.
Target(s) == CHOOSE t \in Statuses : t.id # s.id /\ t.text = s.text

\* What the stream delivers to on_status: a status st and, when it has them, its
\* retweeted_status and quoted_status attributes.
Events ==
    {[st |-> s, retweeted_status |-> r, quoted_status |-> q] :
        <<s, r, q>> \in UNION {{<<s, NoStatus, NoStatus>>,
                                <<s, Target(s), NoStatus>>,
                                <<s, NoStatus, Target(s)>>,
                                <<s, Target(s), Target(s)>>} : s \in Statuses}}

\* No event has been delivered.
NoEvent == [st |-> NoStatus, retweeted_status |-> NoStatus, quoted_status |-> NoStatus]

TweetRecord(tweet) ==
    [key |-> tweet.id, val |-> [full_text |-> tweet.text, user_id |-> tweet.uid]]

\* Python's None.
None == "None"

\* Line 211: user.location if hasattr(user, 'location') else None
Location(tweet) == IF tweet.location # "missing" THEN tweet.location ELSE None

UserRecord(tweet) ==
    [key |-> tweet.uid, val |-> [name |-> tweet.name, location |-> Location(tweet)]]

_parse_tweet(tweet) == <<TweetRecord(tweet), UserRecord(tweet)>>

\* Mutant of ParseRaises: user.location is read without the hasattr guard.
ParseRaisesOnLocation(tweet) ==
    \/ tweet.id = 0
    \/ tweet.text = 0
    \/ tweet.uid = 0
    \/ tweet.name = 0
    \/ tweet.location = "missing"

\* _parse_tweet raises AttributeError: an attribute it reads without a guard
\* (lines 196-201, 208-219) is absent.
ParseRaises(tweet) ==
    \/ tweet.id = 0
    \/ tweet.text = 0
    \/ tweet.uid = 0
    \/ tweet.name = 0

----------------------------------------------------------------------------
\* dict and DataFrame operations.

Keys(rows) == {rows[i].key : i \in 1..Len(rows)}

Max(a, b) == IF a >= b THEN a ELSE b

\* Mutant of DictSet: dict.setdefault, an existing key keeps its value.
DictSetDefault(d, r) == IF r.key \in Keys(d) THEN d ELSE Append(d, r)

\* d[k] = v on an insertion-ordered dict: an existing key keeps its place.
DictSet(d, r) ==
    IF r.key \in Keys(d)
    THEN [i \in 1..Len(d) |-> IF d[i].key = r.key THEN r ELSE d[i]]
    ELSE Append(d, r)

\* DataFrame(columns=...).set_index(key): no rows.
EmptyFrame == <<>>

\* pd.concat(objs=(a, b), ignore_index=False)
Concat(a, b) == a \o b

\* Mutant of DropDuplicates: keep=False, every row of a repeated key is dropped.
DropDuplicatesKeepNone(rows) ==
    SelectSeq(rows, LAMBDA r : Cardinality({i \in 1..Len(rows) : rows[i].key = r.key}) = 1)

\* .drop_duplicates(subset=key): keep='first', the first row of each key stays.
RECURSIVE DropDuplicates(_)
DropDuplicates(rows) ==
    IF rows = <<>> THEN <<>>
    ELSE LET init == DropDuplicates(SubSeq(rows, 1, Len(rows) - 1))
             last == rows[Len(rows)]
         IN  IF last.key \in Keys(init) THEN init ELSE Append(init, last)

\* set_index(key, verify_integrity=True) raises ValueError on a repeated key.
VerifyIntegrity(rows) ==
    \A i, j \in 1..Len(rows) : rows[i].key = rows[j].key => i = j

\* Mutant of Merge: a plain concat, no drop_duplicates and no verify_integrity.
MergeNoDedup(saved, chunk) == [ok |-> TRUE, rows |-> Concat(saved, chunk)]

\* Lines 139-144 / 148-153: the merged table, or the exception raised.
Merge(saved, chunk) ==
    LET merged == DropDuplicates(Concat(saved, chunk))
    IN  [ok |-> VerifyIntegrity(merged), rows |-> merged]

\* DataFrame.to_parquet: the index and the data columns, row by row.
NoFile == [exists |-> FALSE, index |-> <<>>, data |-> <<>>]

to_parquet(rows) ==
    [exists |-> TRUE,
     index |-> [i \in 1..Len(rows) |-> rows[i].key],
     data |-> [i \in 1..Len(rows) |-> rows[i].val]]

\* Mutant of read_parquet: the stored index is not restored (a RangeIndex instead).
read_parquet_range_index(file) ==
    [i \in 1..Len(file.index) |-> [key |-> i - 1, val |-> file.data[i]]]

\* pd.read_parquet: the rows, the stored index column restored as the index.
read_parquet(file) ==
    [i \in 1..Len(file.index) |-> [key |-> file.index[i], val |-> file.data[i]]]

\* Mutant of BacklogFull: > instead of >=.
BacklogOverfull(tweets, users, sz) == Max(Len(tweets), Len(users)) > sz

\* Line 169: max(len(backlog_tweets), len(backlog_users)) >= self._backlog_sz
BacklogFull(tweets, users, sz) == Max(Len(tweets), Len(users)) >= sz

\* Mutant of BacklogLeft: the final flush is not guarded.
BacklogLeftAlways(tweets, users) == TRUE

\* Line 182: max(len(backlog_tweets), len(backlog_users)) > 0
BacklogLeft(tweets, users) == Max(Len(tweets), Len(users)) > 0

----------------------------------------------------------------------------
Init ==
    /\ main_pc = "none"
    /\ mode = "append"
    /\ backlog_sz = 1
    /\ running = FALSE
    /\ write_q = <<>>
    /\ saved_tweet_data = EmptyFrame
    /\ saved_user_data = EmptyFrame
    /\ tweet_file = NoFile
    /\ user_file = NoFile
    /\ writer_pc = "idle"
    /\ backlog_tweets = <<>>
    /\ backlog_users = <<>>
    /\ runs = 0
    /\ nput = 0
    /\ batch = <<>>
    /\ nflush = 0
    /\ submitted = {}
    /\ accepted = {}
    /\ stop_backlog = {}
    /\ flushed = {}
    /\ delivered = NoEvent
    /\ timeout_warned = FALSE
    /\ shutdown_event = FALSE
    /\ stream = "none"

\* Mutant of LoadTable: the mode is ignored, an existing file is always loaded.
LoadTableAnyMode(m, file) == IF file.exists THEN read_parquet(file) ELSE EmptyFrame

\* What __init__ loads for one table (lines 87-108).
LoadTable(m, file) ==
    IF m = "overwrite" THEN EmptyFrame
    ELSE IF file.exists THEN read_parquet(file) ELSE EmptyFrame

\* Mutant of ProcessExited: the writer is a daemon thread, the interpreter does not
\* wait for it.
ProcessExitedDaemon == main_pc \in {"none", "stopped"}

\* No process is running: none was started, or the main thread has left main() and
\* the writer thread, which is not a daemon (lines 82-83), has ended.
ProcessExited ==
    /\ main_pc \in {"none", "stopped"}
    /\ writer_pc \in {"idle", "done", "crashed"}

\* AsyncDiskWriteListener(save_path, mode=m, backlog_sz=sz), by a process started
\* once the previous one (if any) has exited.
Construct(m, sz) ==
    /\ ProcessExited
    /\ runs < MaxRuns
    /\ runs' = runs + 1
    /\ main_pc' = "constructed"
    /\ mode' = m
    /\ backlog_sz' = sz
    /\ running' = FALSE
    /\ write_q' = <<>>
    /\ writer_pc' = "idle"
    /\ saved_tweet_data' = LoadTable(m, tweet_file)
    /\ saved_user_data' = LoadTable(m, user_file)
    /\ backlog_tweets' = <<>>
    /\ backlog_users' = <<>>
    /\ batch' = <<>>
    /\ nflush' = 0
    /\ submitted' = {}
    /\ accepted' = {}
    /\ stop_backlog' = {}
    /\ timeout_warned' = FALSE
    /\ UNCHANGED <<tweet_file, user_file, nput, flushed>>

\* start(): set the flag, start the thread.
Start ==
    /\ main_pc = "constructed"
    /\ main_pc' = "started"
    /\ running' = TRUE
    /\ writer_pc' = "loop"
    /\ UNCHANGED <<mode, backlog_sz, write_q, saved_tweet_data, saved_user_data,
                   tweet_file, user_file, backlog_tweets, backlog_users, runs, nput,
                   batch, nflush, submitted, accepted, stop_backlog, flushed,
                   timeout_warned>>

\* Mutant of Stop: the running flag is not cleared.
StopKeepsRunning ==
    /\ main_pc = "started"
    /\ main_pc' = "joining"
    /\ stop_backlog' = IF Max(Len(backlog_tweets), Len(backlog_users)) >= backlog_sz
                       THEN {} ELSE Keys(backlog_tweets)
    /\ UNCHANGED <<mode, backlog_sz, running, write_q, saved_tweet_data, saved_user_data,
                   tweet_file, user_file, writer_pc, backlog_tweets, backlog_users,
                   runs, nput, batch, nflush, submitted, accepted, flushed,
                   timeout_warned>>

\* stop(), line 120: clear the flag; the join follows.
Stop ==
    /\ main_pc = "started"
    /\ main_pc' = "joining"
    /\ running' = FALSE
    /\ stop_backlog' = IF BacklogFull(backlog_tweets, backlog_users, backlog_sz)
                       THEN {} ELSE Keys(backlog_tweets)
    /\ UNCHANGED <<mode, backlog_sz, write_q, saved_tweet_data, saved_user_data,
                   tweet_file, user_file, writer_pc, backlog_tweets, backlog_users,
                   runs, nput, batch, nflush, submitted, accepted, flushed,
                   timeout_warned>>

WriterExited == writer_pc \in {"done", "crashed"}

\* stop(), line 122: join returns because the thread has ended.
JoinExited ==
    /\ main_pc = "joining"
    /\ WriterExited
    /\ main_pc' = "stopped"
    /\ UNCHANGED <<mode, backlog_sz, running, write_q, saved_tweet_data,
                   saved_user_data, tweet_file, user_file, writer_pc, backlog_tweets,
                   backlog_users, runs, nput, batch, nflush, submitted, accepted, stop_backlog,
                   flushed, timeout_warned, delivered, shutdown_event, stream>>

\* Thread.join(timeout=1) whose timeout elapses returns None: it raises nothing,
\* and no TimeoutError for line 123 to catch.
JoinRaisesTimeoutError == FALSE

\* stop(), lines 121-124: join(timeout=1) ends after one second, the thread still
\* alive; the warning is logged when the join raised TimeoutError.
JoinTimeout ==
    /\ main_pc = "joining"
    /\ ~WriterExited
    /\ main_pc' = "stopped"
    /\ timeout_warned' = (timeout_warned \/ JoinRaisesTimeoutError)
    /\ UNCHANGED <<mode, backlog_sz, running, write_q, saved_tweet_data,
                   saved_user_data, tweet_file, user_file, writer_pc, backlog_tweets,
                   backlog_users, runs, nput, batch, nflush, submitted, accepted, stop_backlog,
                   flushed, delivered, shutdown_event, stream>>

\* Mutant of Enqueued: quoted_status is tested before retweeted_status.
EnqueuedQuoteFirst(e) ==
    IF e.quoted_status # NoStatus THEN <<e.st, e.quoted_status>>
    ELSE IF e.retweeted_status # NoStatus THEN <<e.retweeted_status>>
    ELSE <<e.st>>

\* What on_status puts on the queue, in order (lines 232-238).
Enqueued(e) ==
    IF e.retweeted_status # NoStatus THEN <<e.retweeted_status>>
    ELSE IF e.quoted_status # NoStatus THEN <<e.st, e.quoted_status>>
    ELSE <<e.st>>

\* on_status(tweet): called by the stream's thread, until stop() has returned.
on_status(e) ==
    /\ main_pc \in {"constructed", "started", "joining"}
    /\ nput + Len(Enqueued(e)) <= MaxSubmit
    /\ write_q' = write_q \o Enqueued(e)
    /\ nput' = nput + Len(Enqueued(e))
    /\ submitted' = submitted \cup {Enqueued(e)[i] : i \in 1..Len(Enqueued(e))}
    /\ accepted' = IF main_pc \in {"constructed", "started"}
                   THEN accepted \cup {Enqueued(e)[i].id : i \in 1..Len(Enqueued(e))}
                   ELSE accepted
    /\ UNCHANGED <<main_pc, mode, backlog_sz, running, saved_tweet_data,
                   saved_user_data, tweet_file, user_file, writer_pc, backlog_tweets,
                   backlog_users, runs, batch, nflush, stop_backlog, flushed,
                   timeout_warned>>

----------------------------------------------------------------------------
\* The writer thread, _process_loop (lines 157-190).

\* Mutant of LoopEnter: the loop does not test the running flag.
LoopEnterUnguarded ==
    /\ writer_pc = "loop"
    /\ writer_pc' = "get"
    /\ UNCHANGED <<main_pc, mode, backlog_sz, running, write_q, saved_tweet_data,
                   saved_user_data, tweet_file, user_file, backlog_tweets,
                   backlog_users, runs, nput, batch, nflush, submitted, accepted,
                   stop_backlog, flushed, timeout_warned, delivered, shutdown_event,
                   stream>>

\* Line 161, the flag set: go on to the timed get.
LoopEnter ==
    /\ writer_pc = "loop"
    /\ running
    /\ writer_pc' = "get"
    /\ UNCHANGED <<main_pc, mode, backlog_sz, running, write_q, saved_tweet_data,
                   saved_user_data, tweet_file, user_file, backlog_tweets,
                   backlog_users, runs, nput, batch, nflush, submitted, accepted, stop_backlog,
                   flushed, timeout_warned, delivered, shutdown_event, stream>>

\* Line 161, the flag cleared: leave the loop; lines 182-190 flush what is left.
LoopExit ==
    /\ writer_pc = "loop"
    /\ ~running
    /\ writer_pc' = IF BacklogLeft(backlog_tweets, backlog_users)
                    THEN "final_tweets" ELSE "done"
    /\ UNCHANGED <<main_pc, mode, backlog_sz, running, write_q, saved_tweet_data,
                   saved_user_data, tweet_file, user_file, backlog_tweets,
                   backlog_users, runs, nput, batch, nflush, submitted, accepted, stop_backlog,
                   flushed, timeout_warned, delivered, shutdown_event, stream>>

\* Lines 163-178: get returns an item; parse it, put it in the backlog, and go on
\* to write the backlog when it is full.  An AttributeError of _parse_tweet is not
\* caught in the loop (line 179 catches Empty only): it ends the thread.
Dequeue ==
    /\ writer_pc = "get"
    /\ write_q # <<>>
    /\ LET parsed == _parse_tweet(Head(write_q))
           tweets == DictSet(backlog_tweets, parsed[1])
           users == DictSet(backlog_users, parsed[2])
       IN  IF ParseRaises(Head(write_q))
           THEN /\ writer_pc' = "crashed"
                /\ UNCHANGED <<backlog_tweets, backlog_users, batch>>
           ELSE /\ backlog_tweets' = tweets
                /\ backlog_users' = users
                /\ writer_pc' = IF BacklogFull(tweets, users, backlog_sz)
                                THEN "write_tweets" ELSE "loop"
                /\ batch' = Append(batch, Head(write_q))
    /\ write_q' = Tail(write_q)
    /\ UNCHANGED <<main_pc, mode, backlog_sz, running, saved_tweet_data,
                   saved_user_data, tweet_file, user_file, runs, nput, nflush,
                   submitted, accepted, stop_backlog, flushed, timeout_warned,
                   delivered, shutdown_event, stream>>

\* Lines 164, 179-180: the get times out on an empty queue (queue.Empty).
GetEmpty ==
    /\ writer_pc = "get"
    /\ write_q = <<>>
    /\ writer_pc' = "loop"
    /\ UNCHANGED <<main_pc, mode, backlog_sz, running, write_q, saved_tweet_data,
                   saved_user_data, tweet_file, user_file, backlog_tweets,
                   backlog_users, runs, nput, batch, nflush, submitted, accepted, stop_backlog,
                   flushed, timeout_warned, delivered, shutdown_event, stream>>

\* pd.DataFrame(records).set_index(key) (lines 136-137): an empty list gives a frame
\* without the key column, and set_index raises KeyError.
ChunkOk(records) == records # <<>>

\* Mutant of WriteTweets: the merged tweet table is not written to tweets.parquet
\* before the users are handled.
WriteTweetsNoFile ==
    /\ writer_pc \in {"write_tweets", "final_tweets"}
    /\ LET m == Merge(saved_tweet_data, backlog_tweets)
       IN  IF ChunkOk(backlog_tweets) /\ ChunkOk(backlog_users) /\ m.ok
           THEN /\ saved_tweet_data' = m.rows
                /\ writer_pc' = IF writer_pc = "write_tweets"
                                THEN "write_users" ELSE "final_users"
           ELSE /\ writer_pc' = "crashed"
                /\ UNCHANGED saved_tweet_data
    /\ UNCHANGED <<main_pc, mode, backlog_sz, running, write_q, saved_user_data,
                   tweet_file, user_file, backlog_tweets, backlog_users, runs, nput,
                   batch, nflush, submitted, accepted, stop_backlog, flushed,
                   timeout_warned, delivered, shutdown_event, stream>>

\* _write_backlog_to_disk, lines 136-146: build both chunks, merge the tweets into
\* the saved table and rewrite tweets.parquet.  An exception ends the thread
\* (logger.catch logs it).
WriteTweets ==
    /\ writer_pc \in {"write_tweets", "final_tweets"}
    /\ LET m == Merge(saved_tweet_data, backlog_tweets)
       IN  IF ChunkOk(backlog_tweets) /\ ChunkOk(backlog_users) /\ m.ok
           THEN /\ saved_tweet_data' = m.rows
                /\ tweet_file' = to_parquet(m.rows)
                /\ writer_pc' = IF writer_pc = "write_tweets"
                                THEN "write_users" ELSE "final_users"
           ELSE /\ writer_pc' = "crashed"
                /\ UNCHANGED <<saved_tweet_data, tweet_file>>
    /\ UNCHANGED <<main_pc, mode, backlog_sz, running, write_q, saved_user_data,
                   user_file, backlog_tweets, backlog_users, runs, nput, batch,
                   nflush, submitted, accepted, stop_backlog, flushed, timeout_warned,
                   delivered, shutdown_event, stream>>

\* _write_backlog_to_disk, lines 148-155: merge the users and rewrite users.parquet;
\* back in _process_loop the backlog is cleared (lines 177-178, 188-189).
WriteUsers ==
    /\ writer_pc \in {"write_users", "final_users"}
    /\ LET m == Merge(saved_user_data, backlog_users)
       IN  IF m.ok
           THEN /\ saved_user_data' = m.rows
                /\ user_file' = to_parquet(m.rows)
                /\ writer_pc' = IF writer_pc = "write_users" THEN "loop" ELSE "done"
                /\ backlog_tweets' = <<>>
                /\ backlog_users' = <<>>
                /\ batch' = <<>>
                /\ nflush' = nflush + 1
                /\ flushed' = (IF mode = "overwrite" /\ nflush = 0 THEN {} ELSE flushed)
                                    \cup Keys(backlog_tweets)
           ELSE /\ writer_pc' = "crashed"
                /\ UNCHANGED <<saved_user_data, user_file, backlog_tweets,
                               backlog_users, batch, nflush, flushed>>
    /\ UNCHANGED <<main_pc, mode, backlog_sz, running, write_q, saved_tweet_data,
                   tweet_file, runs, nput, submitted, accepted, stop_backlog,
                   timeout_warned, delivered, shutdown_event, stream>>

\* The listener under any caller.
Next ==
    \/ \E m \in Modes, sz \in BacklogSizes : Construct(m, sz) /\ UNCHANGED pvars
    \/ Start /\ UNCHANGED pvars
    \/ Stop /\ UNCHANGED pvars
    \/ JoinExited
    \/ JoinTimeout
    \/ \E e \in Events : on_status(e) /\ UNCHANGED pvars
    \/ LoopEnter
    \/ LoopExit
    \/ Dequeue
    \/ GetEmpty
    \/ WriteTweets
    \/ WriteUsers

Spec == Init /\ [][Next]_vars

----------------------------------------------------------------------------
\* The program: main() (lines 269-301), the SIGINT handler and the stream.

\* Status codes the stream passes to on_error.
ErrorCodes == {420, 500}

\* The program is run, on a path that holds no files: _shutdown_event is cleared
\* (lines 20-21) and main() constructs the listener (lines 283-286).
Process(m, sz) ==
    /\ main_pc = "none"
    /\ Construct(m, sz)
    /\ shutdown_event' = FALSE
    /\ stream' = "none"
    /\ delivered' = NoEvent

\* Lines 283-293: the with statement calls __enter__, hence start(); the first pass
\* of the loop connects the stream to the listener, on a thread of its own.
EnterWith ==
    /\ Start
    /\ stream' = "connected"
    /\ UNCHANGED <<delivered, shutdown_event>>

\* catch_signal (lines 25-27), the handler of SIGINT (line 307).
catch_signal ==
    /\ main_pc \in {"constructed", "started"}
    /\ ~shutdown_event
    /\ shutdown_event' = TRUE
    /\ UNCHANGED <<main_pc, mode, backlog_sz, running, write_q, saved_tweet_data,
                   saved_user_data, tweet_file, user_file, writer_pc, backlog_tweets,
                   backlog_users, runs, nput, batch, nflush, submitted, accepted,
                   stop_backlog, flushed, timeout_warned, delivered, stream>>

\* Lines 295-298 and 130-131: the polling loop finds the event set, main
\* disconnects the stream and breaks out of the with block, whose __exit__ calls
\* stop().  A disconnected stream ends once its thread notices.
ExitWith ==
    /\ shutdown_event
    /\ Stop
    /\ stream' = IF stream = "connected" THEN "closing" ELSE stream
    /\ UNCHANGED <<delivered, shutdown_event>>

\* The stream's thread passes a status to on_status.
Deliver(e) ==
    /\ stream \in {"connected", "closing"}
    /\ on_status(e)
    /\ UNCHANGED <<shutdown_event, stream>>

\* The stream's thread ends after disconnect().
StreamClosed ==
    /\ stream = "closing"
    /\ stream' = "closed"
    /\ UNCHANGED <<main_pc, mode, backlog_sz, running, write_q, saved_tweet_data,
                   saved_user_data, tweet_file, user_file, writer_pc, backlog_tweets,
                   backlog_users, runs, nput, batch, nflush, submitted, accepted,
                   stop_backlog, flushed, timeout_warned, delivered, shutdown_event>>

\* The value on_error returns (lines 242-248).
on_error_returns(status_code) == status_code # 420

\* on_error(status_code), called by the stream's thread: on False the stream
\* disconnects, on anything else it reconnects with backoff.
on_error(status_code) ==
    /\ stream = "connected"
    /\ stream' = IF on_error_returns(status_code) THEN "connected" ELSE "closed"
    /\ UNCHANGED <<main_pc, mode, backlog_sz, running, write_q, saved_tweet_data,
                   saved_user_data, tweet_file, user_file, writer_pc, backlog_tweets,
                   backlog_users, runs, nput, batch, nflush, submitted, accepted,
                   stop_backlog, flushed, timeout_warned, delivered, shutdown_event>>

\* to_parquet of line 146 raises OSError: the table in memory is the merged one
\* (lines 139-144), tweets.parquet is not rewritten, and the exception ends the
\* thread (logger.catch logs it).
WriteTweetsFails ==
    /\ writer_pc \in {"write_tweets", "final_tweets"}
    /\ ChunkOk(backlog_tweets)
    /\ ChunkOk(backlog_users)
    /\ Merge(saved_tweet_data, backlog_tweets).ok
    /\ saved_tweet_data' = Merge(saved_tweet_data, backlog_tweets).rows
    /\ writer_pc' = "crashed"
    /\ UNCHANGED <<main_pc, mode, backlog_sz, running, write_q, saved_user_data,
                   tweet_file, user_file, backlog_tweets, backlog_users, runs, nput,
                   batch, nflush, submitted, accepted, stop_backlog, flushed,
                   timeout_warned, delivered, shutdown_event, stream>>

\* to_parquet of line 155 raises OSError: tweets.parquet has been rewritten,
\* users.parquet is not, and the exception ends the thread.
WriteUsersFails ==
    /\ writer_pc \in {"write_users", "final_users"}
    /\ Merge(saved_user_data, backlog_users).ok
    /\ saved_user_data' = Merge(saved_user_data, backlog_users).rows
    /\ writer_pc' = "crashed"
    /\ UNCHANGED <<main_pc, mode, backlog_sz, running, write_q, saved_tweet_data,
                   tweet_file, user_file, backlog_tweets, backlog_users, runs, nput,
                   batch, nflush, submitted, accepted, stop_backlog, flushed,
                   timeout_warned, delivered, shutdown_event, stream>>

\* The steps of the main thread inside the process.
MainThread ==
    \/ EnterWith
    \/ ExitWith
    \/ JoinExited
    \/ JoinTimeout

\* The steps of the writer thread.
WriterThread ==
    \/ LoopEnter
    \/ LoopExit
    \/ Dequeue
    \/ GetEmpty
    \/ WriteTweets
    \/ WriteUsers
    \/ WriteTweetsFails
    \/ WriteUsersFails

\* The steps of the stream's thread.
StreamThread ==
    \/ \E e \in Events : Deliver(e) /\ UNCHANGED delivered
    \/ \E status_code \in ErrorCodes : on_error(status_code)
    \/ StreamClosed

MainNext ==
    \/ \E m \in Modes, sz \in BacklogSizes : Process(m, sz)
    \/ catch_signal
    \/ MainThread
    \/ WriterThread
    \/ StreamThread

MainSpec == Init /\ [][MainNext]_vars

\* The stream's thread, delivering MaxLivePuts statuses at most.
LiveStreamThread ==
    \/ \E e \in Events : /\ nput + Len(Enqueued(e)) <= MaxLivePuts
                          /\ Deliver(e)
                          /\ UNCHANGED delivered
    \/ \E status_code \in ErrorCodes : on_error(status_code)
    \/ StreamClosed

LiveNext ==
    \/ \E m \in Modes, sz \in BacklogSizes : Process(m, sz)
    \/ catch_signal
    \/ MainThread
    \/ WriterThread
    \/ LiveStreamThread

\* The main thread and the writer thread are scheduled fairly: a thread that can
\* take a step takes one (main polls every half second, the writer's get times
\* out after a tenth of a second).
LiveSpec == Init /\ [][LiveNext]_vars /\ WF_vars(MainThread) /\ WF_vars(WriterThread)

\* The listener under any caller, on a disk whose writes can fail.
FaultNext ==
    \/ Next
    \/ WriteTweetsFails
    \/ WriteUsersFails

FaultSpec == Init /\ [][FaultNext]_vars

\* The stream hands events to the listener of a running program; the writer
\* consumes them.
DeliveryNext ==
    \/ \E m \in Modes, sz \in BacklogSizes : Process(m, sz)
    \/ EnterWith
    \/ \E e \in Events : Deliver(e) /\ delivered' = e
    \/ LoopEnter
    \/ Dequeue
    \/ GetEmpty
    \/ WriteTweets
    \/ WriteUsers

DeliverySpec == Init /\ [][DeliveryNext]_vars

----------------------------------------------------------------------------
\* Vocabulary of the properties.

RowSet(rows) == {rows[i] : i \in 1..Len(rows)}

OneRowPerKey(rows) == Cardinality(Keys(rows)) = Len(rows)

TweetWritePcs == {"write_tweets", "final_tweets"}
UserWritePcs == {"write_users", "final_users"}

\* The step that merges the tweet backlog and rewrites tweets.parquet.
TweetsFlushed == writer_pc \in TweetWritePcs /\ writer_pc' \in UserWritePcs

\* The step that merges the user backlog, rewrites users.parquet and ends the flush.
UsersFlushed == writer_pc \in UserWritePcs /\ writer_pc' \in {"loop", "done"}

----------------------------------------------------------------------------
\* C1: in every state, hence after each successful flush, the tweet table and the
\* user table, in memory and in their files, hold one row per key: no tweet_id and
\* no user_id appears twice.
C1_OneRowPerKey ==
    /\ OneRowPerKey(saved_tweet_data)
    /\ OneRowPerKey(saved_user_data)
    /\ OneRowPerKey(read_parquet(tweet_file))
    /\ OneRowPerKey(read_parquet(user_file))

\* A flush has merged a tweet backlog into a table that already held one of its keys,
\* and is about to do the same for the users.
C1_Witness ==
    /\ writer_pc \in UserWritePcs
    /\ nflush + runs >= 2
    /\ Keys(backlog_users) \cap Keys(saved_user_data) # {}
    /\ Len(saved_tweet_data) = 2
    /\ tweet_file = to_parquet(saved_tweet_data)

\* C2 (as claimed): after a flush, every row of the backlog is the row stored under
\* its key, in the tweet table and in the user table, also when the table already
\* held a row with that key.
C2_BacklogValueStored ==
    [][/\ TweetsFlushed => RowSet(backlog_tweets) \subseteq RowSet(saved_tweet_data')
       /\ UsersFlushed => RowSet(backlog_users) \subseteq RowSet(saved_user_data')]_vars

\* C3 (as claimed): once the writer thread has exited, every tweet id that on_status
\* put on the queue before stop() has a row in the persisted tweet table.
C3_NoAcceptedRecordLost ==
    writer_pc = "done" =>
        /\ accepted \subseteq Keys(saved_tweet_data)
        /\ accepted \subseteq Keys(read_parquet(tweet_file))

\* C4 (as claimed): when stop() has returned, every record that was in the backlog,
\* below the threshold, when stop() was called has its row in tweets.parquet.
C4_FlushedWhenStopReturns ==
    main_pc = "stopped" => stop_backlog \subseteq Keys(read_parquet(tweet_file))

\* C5: a successful flush makes the key set of each persisted table the union of
\* its key set before the flush and the key set of the backlog, and the file
\* written holds that table.
C5_KeysUnion ==
    [][/\ TweetsFlushed =>
            /\ Keys(saved_tweet_data') = Keys(saved_tweet_data) \cup Keys(backlog_tweets)
            /\ Keys(read_parquet(tweet_file')) = Keys(saved_tweet_data')
       /\ UsersFlushed =>
            /\ Keys(saved_user_data') = Keys(saved_user_data) \cup Keys(backlog_users)
            /\ Keys(read_parquet(user_file')) = Keys(saved_user_data')]_vars

\* A flush has merged a backlog into a tweet table that held one of its keys and a
\* key the backlog has not.
C5_Witness ==
    /\ writer_pc \in UserWritePcs
    /\ nflush + runs >= 2
    /\ Keys(backlog_tweets) \subseteq Keys(saved_tweet_data)
    /\ Keys(backlog_tweets) # Keys(saved_tweet_data)
    /\ \E i \in 1..Len(backlog_tweets) : backlog_tweets[i] \notin RowSet(saved_tweet_data)

\* The ids of a sequence of statuses, in order.
Ids(b) == [i \in 1..Len(b) |-> b[i].id]

DistinctIds(b) == \A i, j \in 1..Len(b) : b[i].id = b[j].id => i = j

\* The last status of b with tweet id k.
LastOf(b, k) ==
    b[CHOOSE i \in 1..Len(b) : b[i].id = k /\ \A j \in (i + 1)..Len(b) : b[j].id # k]

\* The step in which the timed get returns an item.
Dequeued == writer_pc = "get" /\ batch' # batch

\* C6: with backlog_sz >= 1, a record consumed into a backlog whose records all
\* have distinct tweet ids triggers the flush exactly when it is the backlog_sz-th
\* of them, and no earlier record does; that flush is counted once and leaves both
\* backlogs empty with the writer back in its loop.
C6_FlushAtThreshold ==
    [][/\ (Dequeued /\ backlog_sz >= 1 /\ DistinctIds(batch')) =>
            /\ (writer_pc' = "write_tweets") <=> (Len(batch') = backlog_sz)
            /\ writer_pc' # "write_tweets" =>
                    /\ writer_pc' = "loop"
                    /\ Len(batch') < backlog_sz
                    /\ nflush' = nflush
       /\ (writer_pc = "write_tweets" /\ writer_pc' # writer_pc) =>
            /\ writer_pc' = "write_users"
            /\ nflush' = nflush
       /\ (writer_pc = "write_users" /\ writer_pc' # writer_pc) =>
            /\ writer_pc' = "loop"
            /\ nflush' = nflush + 1
            /\ backlog_tweets' = <<>>
            /\ backlog_users' = <<>>]_vars

\* After the one flush that backlog_sz = 2 distinct records triggered, the next
\* record has started a new backlog.
C6_Witness ==
    /\ backlog_sz = 2
    /\ nflush = 1
    /\ Len(saved_tweet_data) = 2
    /\ Len(user_file.index) >= 1
    /\ writer_pc = "loop"
    /\ running
    /\ Len(batch) = 1
    /\ Len(backlog_tweets) = 1

\* C7 (as claimed): once records with ids [1,2,1] have been consumed at threshold 3,
\* the flush is under way, with 2 tweets to write and the second submission of id 1
\* among them.
C7_FlushAfterThree ==
    (backlog_sz = 3 /\ Ids(batch) = <<1, 2, 1>>) =>
        /\ writer_pc \in {"write_tweets", "write_users"}
        /\ Len(backlog_tweets) = 2
        /\ TweetRecord(batch[3]) \in RowSet(backlog_tweets)

\* The backlog holds, for each tweet id consumed since it was cleared, the record of
\* the last status consumed with that id.
LastSubmittedWins ==
    /\ Keys(backlog_tweets) = {batch[i].id : i \in 1..Len(batch)}
    /\ \A r \in RowSet(backlog_tweets) : r = TweetRecord(LastOf(batch, r.key))

\* C7 (amended): records with ids [1,2,1] and fewer than three distinct users at
\* threshold 3 leave a backlog of 2 tweets and trigger no flush; the flush that
\* persists them is the final one, after which a table that was empty holds exactly
\* 2 rows, the row of id 1 with the payload of the second submission; and in every
\* state the backlog holds the last-submitted record of each id.
C7_LastSubmittedFlushed ==
    [][/\ LastSubmittedWins'
       /\ (/\ backlog_sz' = 3
           /\ Ids(batch') = <<1, 2, 1>>
           /\ Cardinality({batch'[i].uid : i \in 1..3}) < 3) =>
                /\ writer_pc' \in {"loop", "get", "final_tweets", "final_users"}
                /\ Len(backlog_tweets') = 2
       /\ (/\ TweetsFlushed
           /\ backlog_sz = 3
           /\ Ids(batch) = <<1, 2, 1>>
           /\ saved_tweet_data = <<>>) =>
                /\ Len(saved_tweet_data') = 2
                /\ RowSet(saved_tweet_data') = {TweetRecord(batch[3]), TweetRecord(batch[2])}
                /\ tweet_file' = to_parquet(saved_tweet_data')
       /\ (/\ UsersFlushed
           /\ backlog_sz = 3
           /\ Ids(batch) = <<1, 2, 1>>
           /\ nflush = 0) =>
                /\ nflush' = 1
                /\ writer_pc' = "done"]_vars

\* The final flush has written the tweets of a batch [1,2,1] whose two submissions of
\* id 1 differ, into a table that was empty.
C7_Witness ==
    /\ writer_pc = "final_users"
    /\ backlog_sz = 3
    /\ nflush = 0
    /\ Ids(batch) = <<1, 2, 1>>
    /\ batch[1] # batch[3]
    /\ Len(saved_tweet_data) = 2
    /\ TweetRecord(batch[3]) \in RowSet(read_parquet(tweet_file))

\* C8: a writer that leaves its loop with an empty backlog goes straight to its end
\* without raising, and neither then nor later in that run are the persisted tables
\* or their files changed.
C8_EmptyFinalFlush ==
    [][/\ (/\ writer_pc = "loop"
           /\ ~running
           /\ backlog_tweets = <<>>
           /\ backlog_users = <<>>
           /\ writer_pc' # writer_pc) =>
                /\ writer_pc' = "done"
                /\ UNCHANGED <<saved_tweet_data, saved_user_data, tweet_file, user_file>>
       /\ (writer_pc = "done" /\ runs' = runs) =>
                /\ writer_pc' = "done"
                /\ UNCHANGED <<saved_tweet_data, saved_user_data, tweet_file, user_file>>]_vars

\* A run on existing files has ended without any flush: its final flush was skipped.
C8_Witness ==
    /\ writer_pc = "done"
    /\ nflush = 0
    /\ backlog_tweets = <<>>
    /\ runs = 2
    /\ mode = "append"
    /\ tweet_file.exists
    /\ tweet_file = to_parquet(saved_tweet_data)

\* C9: a listener constructed in append mode after a run that flushed and ended
\* loads exactly the tables that run flushed, row for row; the flushes of the new
\* run keep every loaded key, one row each.
C9_AppendRoundTrip ==
    [][/\ (runs' = runs + 1 /\ mode' = "append" /\ writer_pc = "done" /\ nflush > 0) =>
            /\ saved_tweet_data' = saved_tweet_data
            /\ saved_user_data' = saved_user_data
       /\ (TweetsFlushed /\ mode = "append") =>
            /\ Keys(saved_tweet_data) \subseteq Keys(saved_tweet_data')
            /\ OneRowPerKey(saved_tweet_data')
       /\ (UsersFlushed /\ mode = "append") =>
            /\ Keys(saved_user_data) \subseteq Keys(saved_user_data')
            /\ OneRowPerKey(saved_user_data')]_vars

\* A second listener, in append mode, has loaded a two-row tweet table from the
\* file of the first run.
C9_Witness ==
    /\ runs = 2
    /\ mode = "append"
    /\ main_pc = "constructed"
    /\ Len(saved_tweet_data) = 2
    /\ Len(saved_user_data) >= 1
    /\ tweet_file = to_parquet(saved_tweet_data)

\* C10: in overwrite mode the tables start empty whatever the files hold; a file is
\* unchanged, and its table empty, in every state before the first flush writes it;
\* once written, a file holds only records of statuses submitted in this run.
C10_Overwrite ==
    [][mode' = "overwrite" =>
        /\ runs' = runs + 1 =>
                /\ saved_tweet_data' = EmptyFrame
                /\ saved_user_data' = EmptyFrame
        /\ (nflush' = 0 /\ writer_pc' \notin UserWritePcs) =>
                /\ tweet_file' = tweet_file
                /\ saved_tweet_data' = EmptyFrame
        /\ nflush' = 0 =>
                /\ user_file' = user_file
                /\ saved_user_data' = EmptyFrame
        /\ (nflush' > 0 \/ writer_pc' \in UserWritePcs) =>
                RowSet(read_parquet(tweet_file')) \subseteq {TweetRecord(t) : t \in submitted'}
        /\ nflush' > 0 =>
                RowSet(read_parquet(user_file')) \subseteq {UserRecord(t) : t \in submitted'}]_vars

\* An overwrite run on existing files is in its first flush: tweets.parquet holds
\* this run's rows, users.parquet still holds a user this run never saw.
C10_Witness ==
    /\ runs = 2
    /\ mode = "overwrite"
    /\ nflush = 0
    /\ writer_pc \in UserWritePcs
    /\ tweet_file = to_parquet(saved_tweet_data)
    /\ user_file.exists
    /\ saved_user_data = EmptyFrame
    /\ \E k \in Keys(read_parquet(user_file)) : k \notin {t.uid : t \in submitted}

----------------------------------------------------------------------------
\* C11: a delivery appends to the queue, and counts, exactly: for an event with a
\* retweeted_status (with or without a quoted_status) one item, the retweeted
\* status, whose id is not the wrapper's; for an event with a quoted_status only,
\* two items, the event's status and then the quoted status; for any other event
\* one item, the event's status.
C11_Enqueued ==
    [][nput' # nput =>
        LET e == delivered'
        IN  /\ e \in Events
            /\ e.retweeted_status # NoStatus =>
                    /\ write_q' = Append(write_q, e.retweeted_status)
                    /\ write_q'[Len(write_q')].id # e.st.id
                    /\ nput' = nput + 1
            /\ (e.retweeted_status = NoStatus /\ e.quoted_status # NoStatus) =>
                    /\ write_q' = write_q \o <<e.st, e.quoted_status>>
                    /\ nput' = nput + 2
            /\ (e.retweeted_status = NoStatus /\ e.quoted_status = NoStatus) =>
                    /\ write_q' = Append(write_q, e.st)
                    /\ nput' = nput + 1]_vars

\* An event that is both a retweet and a quote has been delivered after another
\* event: the last item of the queue is its retweeted status.
C11_Witness ==
    /\ delivered.retweeted_status # NoStatus
    /\ delivered.quoted_status # NoStatus
    /\ Len(write_q) >= 2
    /\ write_q[Len(write_q)] = delivered.retweeted_status
    /\ write_q[Len(write_q) - 1] # delivered.st

----------------------------------------------------------------------------
\* C12: the main thread leaves the with-block, entered through start(), only
\* through stop(): after the shutdown signal, with the stream disconnected and the
\* running flag cleared; and once the shutdown signal has been received, main
\* eventually returns from stop() and the writer thread eventually ends (with its
\* last flush done, unless a write of a flush failed).
C12_ReleasedAndStopped ==
    /\ [][(main_pc = "started" /\ main_pc' # "started") =>
            /\ shutdown_event
            /\ main_pc' = "joining"
            /\ ~running'
            /\ stream' # "connected"]_vars
    /\ shutdown_event ~> (main_pc = "stopped" /\ writer_pc \in {"done", "crashed"})
    /\ (shutdown_event /\ writer_pc = "final_users") ~>
            (writer_pc = "crashed" \/ (writer_pc = "done" /\ backlog_tweets = <<>>))

\* After a signal the program has ended: the stream is closed, stop() has returned
\* and the writer has ended after a final flush.
C12_Witness ==
    /\ shutdown_event
    /\ stream = "closed"
    /\ main_pc = "stopped"
    /\ writer_pc = "done"
    /\ nflush = 1
    /\ backlog_sz = 3
    /\ user_file = to_parquet(saved_user_data)

----------------------------------------------------------------------------
\* stop() has cleared the running flag of the current run.
FlagCleared == ~running /\ main_pc \in {"joining", "stopped"}

\* C13 (as claimed): once stop() has cleared the running flag, the writer takes no
\* further entry from the queue.
C13_NoDequeueAfterStop ==
    [][FlagCleared => ~Dequeued]_vars

\* C13 (amended): once stop() has cleared the running flag the writer never starts
\* another timed get; a get it was already in ends with one entry or with a
\* timeout; the loop is then left once, for one final flush of a backlog that is
\* not empty (tweets, then users, then the backlog cleared and the flush counted)
\* or straight for the end when it is empty; and the end is final.
C13_AtMostOneLateDequeue ==
    [][(FlagCleared /\ runs' = runs) =>
        /\ writer_pc # "get" => writer_pc' # "get"
        /\ (writer_pc = "get" /\ writer_pc' # "get") =>
                /\ writer_pc' \in {"loop", "write_tweets"}
                /\ Len(write_q') >= Len(write_q) - 1
        /\ (writer_pc = "loop" /\ writer_pc' # "loop") =>
                /\ writer_pc' = IF backlog_tweets = <<>> /\ backlog_users = <<>>
                                THEN "done" ELSE "final_tweets"
                /\ write_q' = write_q
        /\ (writer_pc = "final_tweets" /\ writer_pc' # writer_pc) =>
                writer_pc' = "final_users"
        /\ (writer_pc = "final_users" /\ writer_pc' # writer_pc) =>
                /\ writer_pc' = "done"
                /\ nflush' = nflush + 1
                /\ backlog_tweets' = <<>>
                /\ backlog_users' = <<>>
        /\ writer_pc = "done" => (writer_pc' = "done" /\ nflush' = nflush)]_vars

\* The final flush is about to write a backlog that holds a record dequeued after
\* stop() cleared the flag, next to the records it held at that moment.
C13_Witness ==
    /\ FlagCleared
    /\ writer_pc = "final_tweets"
    /\ stop_backlog # {}
    /\ stop_backlog \subseteq Keys(backlog_tweets)
    /\ stop_backlog # Keys(backlog_tweets)

----------------------------------------------------------------------------
\* C14 (as claimed): once a failed write of a flush has ended the writer thread,
\* the program, still inside main's with-block, puts no further status on the
\* queue.
C14_NoEnqueueAfterWriterDied ==
    [][(writer_pc = "crashed" /\ main_pc = "started") => nput' = nput]_vars

----------------------------------------------------------------------------
\* C15 (as claimed): when on_error has returned False, which ends the connected
\* stream, the shutdown has been requested.
C15_TerminalCodeRequestsShutdown ==
    [][(stream = "connected" /\ stream' = "closed") => shutdown_event']_vars

----------------------------------------------------------------------------
\* The tweet ids tweets.parquet holds.
TweetIdsOnDisk == Keys(read_parquet(tweet_file))

----------------------------------------------------------------------------
\* C17: a flush under way is never ended by anything but its own steps: whatever
\* else happens (stop() clearing the flag, its join timing out, stop() returning),
\* the writer stays in the flush; its steps write tweets.parquet and then
\* users.parquet with the merged tables, the backlog in them, and only then does
\* the writer go back to its loop or end; the thread ends only from the loop with
\* an empty backlog or from the user write of the final flush; and no new process
\* starts on the path while a flush is under way.
C17_FlushNotPreempted ==
    [][/\ writer_pc \in TweetWritePcs =>
            /\ \/ writer_pc' = writer_pc /\ tweet_file' = tweet_file
               \/ /\ writer_pc' = IF writer_pc = "write_tweets"
                                  THEN "write_users" ELSE "final_users"
                  /\ tweet_file' = to_parquet(saved_tweet_data')
                  /\ Keys(backlog_tweets) \subseteq Keys(saved_tweet_data')
       /\ writer_pc \in UserWritePcs =>
            /\ tweet_file' = tweet_file
            /\ \/ writer_pc' = writer_pc /\ user_file' = user_file
               \/ /\ writer_pc' = IF writer_pc = "write_users" THEN "loop" ELSE "done"
                  /\ user_file' = to_parquet(saved_user_data')
                  /\ Keys(backlog_users) \subseteq Keys(saved_user_data')
       /\ (writer_pc' = "done" /\ writer_pc # "done") =>
            \/ writer_pc = "final_users"
            \/ writer_pc = "loop" /\ backlog_tweets = <<>> /\ backlog_users = <<>>
       /\ (writer_pc \in TweetWritePcs \cup UserWritePcs) => runs' = runs]_vars

\* stop() has cleared the flag and returned, its join timed out, while a threshold
\* flush is between its two writes.
C17_Witness ==
    /\ main_pc = "stopped"
    /\ ~running
    /\ writer_pc = "write_users"
    /\ tweet_file = to_parquet(saved_tweet_data)
    /\ user_file # to_parquet(saved_user_data)

----------------------------------------------------------------------------
\* C18 (as claimed): when the join of stop() ends on its timeout, the writer thread
\* still alive, the timeout warning has been logged by the time stop() returns.
C18_TimeoutWarningLogged ==
    [][(main_pc = "joining" /\ main_pc' = "stopped" /\ ~WriterExited) =>
            timeout_warned']_vars

----------------------------------------------------------------------------
\* C19: when the timed get returns a status whose user has no location attribute,
\* the writer does not end: it goes on in its loop or to the threshold flush; the
\* user record of the status is in the backlog with None as its location, its tweet
\* record is in the backlog, and every record the backlogs held under another key
\* is still there.
C19_SentinelKeepsBatch ==
    [][(/\ writer_pc = "get"
        /\ write_q # <<>>
        /\ write_q' = Tail(write_q)
        /\ Head(write_q).location = "missing") =>
            LET t == Head(write_q)
            IN  /\ writer_pc' \in {"loop", "write_tweets"}
                /\ [key |-> t.uid, val |-> [name |-> t.name, location |-> None]]
                        \in RowSet(backlog_users')
                /\ TweetRecord(t) \in RowSet(backlog_tweets')
                /\ \A r \in RowSet(backlog_tweets) :
                        r.key # t.id => r \in RowSet(backlog_tweets')
                /\ \A r \in RowSet(backlog_users) :
                        r.key # t.uid => r \in RowSet(backlog_users')
                /\ batch' = Append(batch, t)]_vars

\* The running writer is back in its loop after a status without location, consumed
\* into a backlog that held a user with a location: both are in the backlog.
C19_Witness ==
    /\ running
    /\ writer_pc = "loop"
    /\ Len(batch) >= 2
    /\ batch[Len(batch)].location = "missing"
    /\ Len(backlog_users) = 2
    /\ \E r \in RowSet(backlog_users) : r.val.location = None
    /\ \E r \in RowSet(backlog_users) : r.val.location = "somewhere"

----------------------------------------------------------------------------
\* C20: with backlog_sz >= 1, whenever the writer is at the top of its loop or in
\* the timed get, each backlog holds fewer than backlog_sz records; no backlog ever
\* holds more than backlog_sz records; and a step empties one backlog exactly when
\* it empties the other.
C20_BacklogBounded ==
    [][/\ (backlog_sz' >= 1 /\ writer_pc' \in {"loop", "get"}) =>
            /\ Len(backlog_tweets') < backlog_sz'
            /\ Len(backlog_users') < backlog_sz'
       /\ Len(backlog_tweets') <= backlog_sz'
       /\ Len(backlog_users') <= backlog_sz'
       /\ (backlog_tweets # <<>> /\ backlog_tweets' = <<>>) <=>
            (backlog_users # <<>> /\ backlog_users' = <<>>)]_vars

\* The writer is in the timed get with a backlog one record short of the threshold
\* 3, its two tweets by one user.
C20_Witness ==
    /\ writer_pc = "get"
    /\ running
    /\ backlog_sz = 3
    /\ Len(backlog_tweets) = 2
    /\ Len(backlog_users) = 1
    /\ Len(batch) = 2
====
